---- MODULE Spec2Model ----
(***************************************************************************)
(* Model of the service-worker audit (ServiceWorker.getVersionsForOrigin,  *)
(* getControllingServiceWorker, checkStartUrl, audit).                     *)
(*                                                                         *)
(* Strings are sequences of one-character strings.  The element "S" stands *)
(* for the scheme prefix "https://", "P" for the default port ":443" and   *)
(* "Q" for a non-default port ":8443"; every other element is one          *)
(* character of the URL.                                                   *)
(***************************************************************************)
EXTENDS Integers, Sequences, FiniteSets, TLC

\* The audit: the inputs of a call, the method called, its result and the
\* arrays it allocated.
VARIABLES versions, registrations, finalUrl, WebAppManifest, scopeArg, pc, ret,
          fresh

\* The SingleDog page: its two checkboxes, the window location and the
\* invocations of handleFormSubmit.
VARIABLES dogWalk, dogPotty, location, submits

\* The registration helper: the config passed to it, the promises it waits
\* on, the response of the fetch, the installing worker, the number of
\* updatefound events and what the helper has done.
VARIABLES swConfig, fetchPromise, response, readyPromise, unregisterPromise,
          registerPromise, installingWorker, updates, swDid

auditVars == <<versions, registrations, finalUrl, WebAppManifest, scopeArg, pc,
               ret, fresh>>

dogVars == <<dogWalk, dogPotty, location, submits>>

swVars == <<swConfig, fetchPromise, response, readyPromise, unregisterPromise,
            registerPromise, installingWorker, updates, swDid>>

vars == <<auditVars, dogVars, swVars>>

\* ------------------------------------------------------------------ bounds
MaxVersions == 2
MaxRegistrations == 2
MaxSubmits == 2
MaxUpdates == 1

\* ------------------------------------------------------------- JS values
\* The JavaScript value undefined (a missing property, a function that
\* returns without a value, Array.prototype.pop / find with no element).
Undefined == [type |-> "undefined"]

\* A TypeError thrown by reading a property of undefined.
TypeError == [type |-> "TypeError"]

StartsWith(s, prefix) ==
    /\ Len(prefix) <= Len(s)
    /\ SubSeq(s, 1, Len(prefix)) = prefix

\* ------------------------------------------------------------ URL parsing
\* Host characters are lower-cased by the URL parser.
LowerCase(c) == IF c = "A" THEN "a" ELSE c

\* Single-dot path segments are removed by the URL parser:
\* "/./x" -> "/x", "/x/." -> "/x/".
RECURSIVE RemoveDotSegments(_)
RemoveDotSegments(path) ==
    IF path = <<>> THEN <<>>
    ELSE IF /\ Len(path) >= 2
            /\ path[1] = "/"
            /\ path[2] = "."
            /\ (Len(path) = 2 \/ path[3] = "/")
         THEN IF Len(path) = 2
              THEN <<"/">>
              ELSE RemoveDotSegments(SubSeq(path, 3, Len(path)))
         ELSE <<Head(path)>> \o RemoveDotSegments(Tail(path))

\* new URL(raw): raw is <<"S", host>> followed by an optional port and a path.
\* The default port is dropped, an empty path becomes "/".
URLParse(raw) ==
    LET host == LowerCase(raw[2])
        rest == SubSeq(raw, 3, Len(raw))
        hasPort == rest # <<>> /\ rest[1] \in {"P", "Q"}
        port == IF hasPort /\ rest[1] = "Q" THEN <<"Q">> ELSE <<>>
        rawPath == IF hasPort THEN Tail(rest) ELSE rest
        path == IF rawPath = <<>> THEN <<"/">> ELSE RemoveDotSegments(rawPath)
        origin == <<"S", host>> \o port
    IN  [origin |-> origin, href |-> origin \o path]

\* ------------------------------------------------------------- i18n str_
\* str_(UIStrings.x, values): the message id with its placeholder values.
str_(id, values) == [type |-> "message", id |-> id, values |-> values]

NoValues == [none |-> <<>>]

\* ---------------------------------------------- ServiceWorker (the audit)
\* v => v.status === 'activated'
IsActivated(v) == v.status = "activated"

\* v => new URL(v.scriptURL).origin === pageUrl.origin
IsSameOrigin(v, pageUrl) == URLParse(v.scriptURL).origin = pageUrl.origin

\* The status filter left out.
getVersionsForOrigin_AnyStatus(vs, pageUrl) ==
    SelectSeq(vs, LAMBDA v : IsSameOrigin(v, pageUrl))

\* Find active service workers for this origin.
getVersionsForOrigin(vs, pageUrl) ==
    SelectSeq(SelectSeq(vs, IsActivated),
              LAMBDA v : IsSameOrigin(v, pageUrl))

\* find with a predicate that accepts every registration.
find_AnyRegistration(regs, version) ==
    IF regs = <<>> THEN Undefined ELSE Head(regs)

\* The last registration with the version's id instead of the first.
RECURSIVE find_Last(_, _)
find_Last(regs, version) ==
    IF regs = <<>> THEN Undefined
    ELSE IF regs[Len(regs)].registrationId = version.registrationId
         THEN regs[Len(regs)]
         ELSE find_Last(SubSeq(regs, 1, Len(regs) - 1), version)

\* registrations.find(r => r.registrationId === version.registrationId)
RECURSIVE find(_, _)
find(regs, version) ==
    IF regs = <<>> THEN Undefined
    ELSE IF Head(regs).registrationId = version.registrationId
         THEN Head(regs)
         ELSE find(Tail(regs), version)

\* The loop pushing the script of the last version with every scope.
RECURSIVE scriptByScopeUrlList_LastScript(_, _)
scriptByScopeUrlList_LastScript(matchingSWVersions, regs) ==
    IF matchingSWVersions = <<>> THEN <<>>
    ELSE LET version == Head(matchingSWVersions)
             lastVersion == matchingSWVersions[Len(matchingSWVersions)]
             matchedRegistration == find(regs, version)
             rest == scriptByScopeUrlList_LastScript(Tail(matchingSWVersions), regs)
         IN  IF matchedRegistration # Undefined
             THEN <<[scopeUrl |-> URLParse(matchedRegistration.scopeURL).href,
                     scriptUrl |-> URLParse(lastVersion.scriptURL).href]>> \o rest
             ELSE rest

\* The loop that fills scriptByScopeUrlList: one {scopeUrl, scriptUrl} per
\* version that has a registration, in the order of the versions.
RECURSIVE scriptByScopeUrlList(_, _)
scriptByScopeUrlList(matchingSWVersions, regs) ==
    IF matchingSWVersions = <<>> THEN <<>>
    ELSE LET version == Head(matchingSWVersions)
             matchedRegistration == find(regs, version)
             rest == scriptByScopeUrlList(Tail(matchingSWVersions), regs)
         IN  IF matchedRegistration # Undefined
             THEN <<[scopeUrl |-> URLParse(matchedRegistration.scopeURL).href,
                     scriptUrl |-> URLParse(version.scriptURL).href]>> \o rest
             ELSE rest

\* The prefix filter left out.
InScope_Unfiltered(ss, pageUrl) == TRUE

\* ss => pageUrl.href.startsWith(ss.scopeUrl)
InScope(ss, pageUrl) == StartsWith(pageUrl.href, ss.scopeUrl)

\* The comparator with its operands swapped: longest first.
compareScopeLength_Descending(ssA, ssB) == Len(ssB.scopeUrl) - Len(ssA.scopeUrl)

\* (ssA, ssB) => ssA.scopeUrl.length - ssB.scopeUrl.length
compareScopeLength(ssA, ssB) == Len(ssA.scopeUrl) - Len(ssB.scopeUrl)

\* Array.prototype.sort is stable: an element is placed after every element
\* that does not compare greater than it.
RECURSIVE InsertSorted(_, _)
InsertSorted(sorted, e) ==
    IF sorted = <<>> THEN <<e>>
    ELSE LET last == sorted[Len(sorted)]
         IN  IF compareScopeLength(last, e) > 0
             THEN InsertSorted(SubSeq(sorted, 1, Len(sorted) - 1), e) \o <<last>>
             ELSE sorted \o <<e>>

RECURSIVE sort(_)
sort(list) ==
    IF list = <<>> THEN <<>>
    ELSE InsertSorted(sort(SubSeq(list, 1, Len(list) - 1)), list[Len(list)])

\* Array.prototype.pop: the last element, undefined on an empty array.
pop(list) == IF list = <<>> THEN Undefined ELSE list[Len(list)]

\* From the set of active service workers for this origin, find the
\* controlling SW (if any) and return its scope URL.
getControllingServiceWorker(matchingSWVersions, regs, pageUrl) ==
    pop(sort(SelectSeq(scriptByScopeUrlList(matchingSWVersions, regs),
                       LAMBDA ss : InScope(ss, pageUrl))))

\* Without the check of WebAppManifest.value: reading start_url of
\* undefined throws.
checkStartUrl_NoValueCheck(manifest, scopeUrl) ==
    IF manifest = Undefined
    THEN str_("explanationNoManifest", NoValues)
    ELSE IF manifest.value = Undefined
    THEN TypeError
    ELSE LET startUrl == manifest.value.start_url.value
         IN  IF ~StartsWith(startUrl, scopeUrl)
             THEN str_("explanationBadStartUrl",
                       [startUrl |-> startUrl, scopeUrl |-> scopeUrl])
             ELSE Undefined

\* startsWith with receiver and argument swapped.
checkStartUrl_SwappedPrefix(manifest, scopeUrl) ==
    IF manifest = Undefined
    THEN str_("explanationNoManifest", NoValues)
    ELSE IF manifest.value = Undefined
    THEN str_("explanationBadManifest", NoValues)
    ELSE LET startUrl == manifest.value.start_url.value
         IN  IF ~StartsWith(scopeUrl, startUrl)
             THEN str_("explanationBadStartUrl",
                       [startUrl |-> startUrl, scopeUrl |-> scopeUrl])
             ELSE Undefined

\* Returns a failure message if there is no start_url or if the start_url
\* isn't controlled by the scopeUrl.
checkStartUrl(manifest, scopeUrl) ==
    IF manifest = Undefined
    THEN str_("explanationNoManifest", NoValues)
    ELSE IF manifest.value = Undefined
    THEN str_("explanationBadManifest", NoValues)
    ELSE LET startUrl == manifest.value.start_url.value
         IN  IF ~StartsWith(startUrl, scopeUrl)
             THEN str_("explanationBadStartUrl",
                       [startUrl |-> startUrl, scopeUrl |-> scopeUrl])
             ELSE Undefined

\* The audit product: a property that is not set reads as undefined.
Product(score, details, explanation) ==
    [score |-> score, details |-> details, explanation |-> explanation]

\* return {score: 0}
NoWorkerProduct == Product(0, Undefined, Undefined)

\* The out-of-scope product without its explanation.
OutOfScopeProduct_NoExplanation(pageUrl) == Product(0, Undefined, Undefined)

\* return {score: 0, explanation: str_(explanationOutOfScope, {pageUrl: pageUrl.href})}
OutOfScopeProduct(pageUrl) ==
    Product(0, Undefined,
            str_("explanationOutOfScope", [pageUrl |-> pageUrl.href]))

\* The start-URL failure scored as a pass.
StartUrlFailureProduct_Score1(details, startUrlFailure) ==
    Product(1, details, startUrlFailure)

\* The start-URL failure without the diagnostic details.
StartUrlFailureProduct_NoDetails(details, startUrlFailure) ==
    Product(0, Undefined, startUrlFailure)

\* return {score: 0, details, explanation: startUrlFailure}
StartUrlFailureProduct(details, startUrlFailure) ==
    Product(0, details, startUrlFailure)

\* return {score: 1, details}
PassProduct(details) == Product(1, details, Undefined)

\* A TypeError thrown by checkStartUrl is not caught: it ends the audit.
audit(artifacts) ==
    LET pageUrl == URLParse(artifacts.URL.finalUrl)
        versionsForOrigin ==
            getVersionsForOrigin(artifacts.ServiceWorker.versions, pageUrl)
        serviceWorkerUrls ==
            getControllingServiceWorker(versionsForOrigin,
                artifacts.ServiceWorker.registrations, pageUrl)
        details == [type |-> "debugdata",
                    scriptUrl |-> serviceWorkerUrls.scriptUrl,
                    scopeUrl |-> serviceWorkerUrls.scopeUrl]
        startUrlFailure ==
            checkStartUrl(artifacts.WebAppManifest, serviceWorkerUrls.scopeUrl)
    IN  IF Len(versionsForOrigin) = 0
        THEN NoWorkerProduct
        ELSE IF serviceWorkerUrls = Undefined
        THEN OutOfScopeProduct(pageUrl)
        ELSE IF startUrlFailure = TypeError
        THEN TypeError
        ELSE IF startUrlFailure # Undefined
        THEN StartUrlFailureProduct(details, startUrlFailure)
        ELSE PassProduct(details)

\* ------------------------------------------------ arrays as objects
\* A memory is a sequence of arrays; an array is known by its position in
\* it.  filter allocates the array it returns; sort and pop change their
\* receiver in place.

\* const scriptByScopeUrlList = []
ArrayNew(mem) == [mem |-> Append(mem, <<>>), ref |-> Len(mem) + 1]

\* A filter that also removes the rejected elements from its receiver.
ArrayFilter_InPlace(mem, a, selected) ==
    [mem |-> Append([mem EXCEPT ![a] = selected], selected),
     ref |-> Len(mem) + 1]

\* a.filter(p), selected being the elements of a that satisfy p.
ArrayFilter(mem, a, selected) ==
    [mem |-> Append(mem, selected), ref |-> Len(mem) + 1]

\* a.sort(compare): sorts a itself and returns it.
ArraySort(mem, a) == [mem |-> [mem EXCEPT ![a] = sort(mem[a])], ref |-> a]

\* a.pop(): removes the last element of a and returns it.
ArrayPop(mem, a) ==
    [mem |-> [mem EXCEPT ![a] = IF mem[a] = <<>> THEN <<>>
                                ELSE SubSeq(mem[a], 1, Len(mem[a]) - 1)],
     value |-> pop(mem[a])]

\* getVersionsForOrigin on the array at vs: the memory it leaves and the
\* array it returns.
getVersionsForOriginInMemory(mem, vs, pageUrl) ==
    LET activated == ArrayFilter(mem, vs, SelectSeq(mem[vs], IsActivated))
        sameOrigin ==
            ArrayFilter(activated.mem, activated.ref,
                        SelectSeq(activated.mem[activated.ref],
                                  LAMBDA v : IsSameOrigin(v, pageUrl)))
    IN  [mem |-> sameOrigin.mem, value |-> sameOrigin.ref]

\* getControllingServiceWorker on the arrays at matchingSWVersions and regs:
\* the memory it leaves and the value it returns.
getControllingServiceWorkerInMemory(mem, matchingSWVersions, regs, pageUrl) ==
    LET list == ArrayNew(mem)
        pushed == [list.mem EXCEPT ![list.ref] =
                      scriptByScopeUrlList(mem[matchingSWVersions], mem[regs])]
        filtered ==
            ArrayFilter(pushed, list.ref,
                        SelectSeq(pushed[list.ref],
                                  LAMBDA ss : InScope(ss, pageUrl)))
        sorted == ArraySort(filtered.mem, filtered.ref)
        popped == ArrayPop(sorted.mem, sorted.ref)
    IN  [mem |-> popped.mem, value |-> popped.value]

\* audit on the arrays at vs and regs.
auditInMemory(mem, vs, regs, url, manifest) ==
    LET pageUrl == URLParse(url)
        versionsForOrigin == getVersionsForOriginInMemory(mem, vs, pageUrl)
        serviceWorkerUrls ==
            getControllingServiceWorkerInMemory(versionsForOrigin.mem,
                versionsForOrigin.value, regs, pageUrl)
        details == [type |-> "debugdata",
                    scriptUrl |-> serviceWorkerUrls.value.scriptUrl,
                    scopeUrl |-> serviceWorkerUrls.value.scopeUrl]
        startUrlFailure ==
            checkStartUrl(manifest, serviceWorkerUrls.value.scopeUrl)
    IN  IF Len(versionsForOrigin.mem[versionsForOrigin.value]) = 0
        THEN [mem |-> versionsForOrigin.mem, value |-> NoWorkerProduct]
        ELSE IF serviceWorkerUrls.value = Undefined
        THEN [mem |-> serviceWorkerUrls.mem, value |-> OutOfScopeProduct(pageUrl)]
        ELSE IF startUrlFailure = TypeError
        THEN [mem |-> serviceWorkerUrls.mem, value |-> TypeError]
        ELSE IF startUrlFailure # Undefined
        THEN [mem |-> serviceWorkerUrls.mem,
              value |-> StartUrlFailureProduct(details, startUrlFailure)]
        ELSE [mem |-> serviceWorkerUrls.mem, value |-> PassProduct(details)]

\* ------------------------------------------------------ the input domains
Statuses == {"activated", "redundant"}

RegistrationIds == {"1", "2"}

\* HTTPS://A:443/v (origin https://a once parsed) and https://a:8443/w
\* (another origin: the port differs)
ScriptURLs ==
    { <<"S", "A", "P", "/", "v">>,
      <<"S", "a", "Q", "/", "w">> }

\* https://a (the root scope, no path: parses to https://a/) and
\* https://A:443/./x/ (parses to https://a/x/)
ScopeURLs ==
    { <<"S", "a">>,
      <<"S", "A", "P", "/", ".", "/", "x", "/">> }

\* https://A/x/p (inside both scopes) and https://a/y (inside the root only)
PageURLs ==
    { <<"S", "A", "/", "x", "/", "p">>,
      <<"S", "a", "/", "y">> }

\* start_url values: https://a/x/q (inside both scopes) and https://a/z
StartURLs ==
    { <<"S", "a", "/", "x", "/", "q">>,
      <<"S", "a", "/", "z">> }

ServiceWorkerVersions ==
    [status : Statuses, scriptURL : ScriptURLs, registrationId : RegistrationIds]

ServiceWorkerRegistrations ==
    [registrationId : RegistrationIds, scopeURL : ScopeURLs]

\* absent, fetched but not parsed, parsed
Manifests ==
    {Undefined, [value |-> Undefined]}
        \cup {[value |-> [start_url |-> [value |-> u]]] : u \in StartURLs}

SeqsUpTo(S, n) == UNION {[1..k -> S] : k \in 0..n}

\* The artifacts the gatherers hand to the audit.
Artifacts ==
    [URL |-> [finalUrl |-> finalUrl],
     ServiceWorker |-> [versions |-> versions, registrations |-> registrations],
     WebAppManifest |-> WebAppManifest]

\* ------------------------------------------- service worker registration
\* The JavaScript value null (headers.get of a header that is not set).
Null == [type |-> "null"]

\* A header value that is set: a string, as its sequence of tokens.
String(tokens) == [type |-> "string", tokens |-> tokens]

\* No content type, application/javascript, text/html.
ContentTypes ==
    {Null, String(<<"application/", "javascript">>), String(<<"text/", "html">>)}

Statuses200To500 == {200, 404, 500}

Responses == [status : Statuses200To500, contentType : ContentTypes]

\* config is optional, and so is each of its callbacks.
Configs == {Undefined} \cup [onUpdate : BOOLEAN, onSuccess : BOOLEAN]

\* contentType.indexOf(token): the position from 0, -1 when absent.
IndexOf(contentType, token) ==
    LET tokens == contentType.tokens
    IN  IF \E k \in 1..Len(tokens) : tokens[k] = token
        THEN (CHOOSE k \in 1..Len(tokens) :
                  /\ tokens[k] = token
                  /\ \A j \in 1..(k - 1) : tokens[j] # token) - 1
        ELSE -1

\* The test of the content type left out.
IsNotServiceWorker_StatusOnly(r) == r.status = 404

\* response.status === 404 ||
\* (contentType != null && contentType.indexOf('javascript') === -1)
IsNotServiceWorker(r) ==
    \/ r.status = 404
    \/ (r.contentType # Null /\ IndexOf(r.contentType, "javascript") = -1)

\* config && config.onUpdate, config && config.onSuccess
HasOnUpdate(config) == config # Undefined /\ config.onUpdate

HasOnSuccess(config) == config # Undefined /\ config.onSuccess

\* What the onstatechange handler does when the worker is installed.
OnInstalled(config, controller) ==
    IF controller
    THEN <<"logNewContent">> \o (IF HasOnUpdate(config) THEN <<"onUpdate">> ELSE <<>>)
    ELSE <<"logCached">> \o (IF HasOnSuccess(config) THEN <<"onSuccess">> ELSE <<>>)

\* Before checkValidServiceWorker is called with some config.
HelperInit ==
    /\ swConfig \in Configs
    /\ fetchPromise = "none"
    /\ response = Undefined
    /\ readyPromise = "none"
    /\ unregisterPromise = "none"
    /\ registerPromise = "none"
    /\ installingWorker = "none"
    /\ updates = 0
    /\ swDid = <<>>

\* The helper is not called.
HelperUnused == HelperInit /\ swConfig = Undefined

\* checkValidServiceWorker(swUrl, config) up to its return: fetch(swUrl).
CheckValidServiceWorker ==
    /\ fetchPromise = "none"
    /\ fetchPromise' = "pending"
    /\ swDid' = Append(swDid, "fetch")
    /\ UNCHANGED <<swConfig, response, readyPromise, unregisterPromise,
                   registerPromise, installingWorker, updates, auditVars,
                   dogVars>>

\* The fetch resolves: the then callback either waits for the ready
\* registration or calls registerValidSW, which calls register(swUrl).
FetchFulfils ==
    /\ fetchPromise = "pending"
    /\ fetchPromise' = "fulfilled"
    /\ \E r \in Responses :
          /\ response' = r
          /\ IF IsNotServiceWorker(r)
             THEN /\ readyPromise' = "pending"
                  /\ swDid' = Append(swDid, "ready.then")
                  /\ UNCHANGED registerPromise
             ELSE /\ registerPromise' = "pending"
                  /\ swDid' = Append(swDid, "registerValidSW")
                  /\ UNCHANGED readyPromise
    /\ UNCHANGED <<swConfig, unregisterPromise, installingWorker, updates,
                   auditVars, dogVars>>

\* The fetch fails: the catch callback logs that the app runs offline.
FetchRejects ==
    /\ fetchPromise = "pending"
    /\ fetchPromise' = "rejected"
    /\ swDid' = Append(swDid, "logOffline")
    /\ UNCHANGED <<swConfig, response, readyPromise, unregisterPromise,
                   registerPromise, installingWorker, updates, auditVars,
                   dogVars>>

\* navigator.serviceWorker.ready resolves: registration.unregister().
ReadyFulfils ==
    /\ readyPromise = "pending"
    /\ readyPromise' = "fulfilled"
    /\ unregisterPromise' = "pending"
    /\ swDid' = Append(swDid, "unregister")
    /\ UNCHANGED <<swConfig, fetchPromise, response, registerPromise,
                   installingWorker, updates, auditVars, dogVars>>

\* unregister() resolves: window.location.reload().
UnregisterFulfils ==
    /\ unregisterPromise = "pending"
    /\ unregisterPromise' = "fulfilled"
    /\ swDid' = swDid \o <<"unregistered", "reload">>
    /\ UNCHANGED <<swConfig, fetchPromise, response, readyPromise,
                   registerPromise, installingWorker, updates, auditVars,
                   dogVars>>

\* unregister() rejects: no callback is attached for it.
UnregisterRejects ==
    /\ unregisterPromise = "pending"
    /\ unregisterPromise' = "rejected"
    /\ UNCHANGED <<swConfig, fetchPromise, response, readyPromise,
                   registerPromise, installingWorker, updates, swDid,
                   auditVars, dogVars>>

\* register(swUrl) resolves: registration.onupdatefound is set.
RegisterFulfils ==
    /\ registerPromise = "pending"
    /\ registerPromise' = "fulfilled"
    /\ UNCHANGED <<swConfig, fetchPromise, response, readyPromise,
                   unregisterPromise, installingWorker, updates, swDid,
                   auditVars, dogVars>>

\* register(swUrl) rejects: the catch callback logs the error.
RegisterRejects ==
    /\ registerPromise = "pending"
    /\ registerPromise' = "rejected"
    /\ swDid' = Append(swDid, "logRegistrationError")
    /\ UNCHANGED <<swConfig, fetchPromise, response, readyPromise,
                   unregisterPromise, installingWorker, updates, auditVars,
                   dogVars>>

\* registration.onupdatefound: returns when registration.installing is
\* null, sets onstatechange on the installing worker otherwise.
UpdateFound ==
    /\ registerPromise = "fulfilled"
    /\ updates < MaxUpdates
    /\ updates' = updates + 1
    /\ \E installing \in {"null", "installing"} :
          installingWorker' = IF installing = "null" THEN installingWorker
                              ELSE "installing"
    /\ UNCHANGED <<swConfig, fetchPromise, response, readyPromise,
                   unregisterPromise, registerPromise, swDid, auditVars,
                   dogVars>>

\* installingWorker.onstatechange: acts when the state is 'installed',
\* by whether a controller exists.
StateChange ==
    /\ installingWorker = "installing"
    /\ \E state \in {"installed", "redundant"}, controller \in BOOLEAN :
          /\ installingWorker' = state
          /\ swDid' = IF state = "installed"
                      THEN swDid \o OnInstalled(swConfig, controller)
                      ELSE swDid
    /\ UNCHANGED <<swConfig, fetchPromise, response, readyPromise,
                   unregisterPromise, registerPromise, updates, auditVars,
                   dogVars>>

\* ------------------------------------------------------------- SingleDog
\* An invocation of handleFormSubmit: the dogWalk and dogPotty it closed
\* over, where it stands, and what it has done so far.
Invocation(walk, potty) ==
    [walk |-> walk, potty |-> potty, at |-> "start", did |-> <<>>]

Did(h, at, event) == [h EXCEPT !.at = at, !.did = Append(@, event)]

\* window.location = '/dashboard'
Navigate(h) == Did(h, "navigated", "navigate")

\* if (dogPotty) { await addPotty(...) } and, without it, the navigation.
AfterWalk(h) ==
    IF h.potty THEN Did(h, "awaitPotty", "addPotty") ELSE Navigate(h)

\* addWalk started and the handler going on without awaiting it.
Start_WalkNotAwaited(h) ==
    IF h.walk THEN AfterWalk(Did(h, "start", "addWalk")) ELSE AfterWalk(h)

\* if (dogWalk) { await addWalk(...) }
Start(h) ==
    IF h.walk THEN Did(h, "awaitWalk", "addWalk") ELSE AfterWalk(h)

\* catch (error) { console.log(error) }
Caught(h, event) == Did(Did(h, "start", event), "caught", "catch")

SingleDogInit ==
    /\ dogWalk = FALSE
    /\ dogPotty = FALSE
    /\ location = "/single-dog"
    /\ submits = <<>>

\* The location an invocation leaves: '/dashboard' once it has navigated.
LocationAfter(h) == IF h.at = "navigated" THEN "/dashboard" ELSE location

\* setDogWalk(checked)
HandleWalkChange ==
    /\ \E checked \in BOOLEAN : dogWalk' = checked
    /\ UNCHANGED <<dogPotty, location, submits, auditVars, swVars>>

\* setDogPotty(checked)
HandlePottyChange ==
    /\ \E checked \in BOOLEAN : dogPotty' = checked
    /\ UNCHANGED <<dogWalk, location, submits, auditVars, swVars>>

\* A click on Submit, which is disabled while neither box is checked: the
\* handler runs up to its first await.
HandleFormSubmit ==
    /\ dogWalk \/ dogPotty
    /\ Len(submits) < MaxSubmits
    /\ LET h == Start(Invocation(dogWalk, dogPotty))
       IN  /\ submits' = Append(submits, h)
           /\ location' = LocationAfter(h)
    /\ UNCHANGED <<dogWalk, dogPotty, auditVars, swVars>>

\* The promise of addWalk resolves and the handler resumes after the await.
WalkResolves ==
    /\ \E i \in 1..Len(submits) :
          /\ submits[i].at = "awaitWalk"
          /\ LET h == AfterWalk(Did(submits[i], "start", "walkResolved"))
             IN  /\ submits' = [submits EXCEPT ![i] = h]
                 /\ location' = LocationAfter(h)
    /\ UNCHANGED <<dogWalk, dogPotty, auditVars, swVars>>

\* The promise of addWalk rejects: the await throws into the catch.
WalkRejects ==
    /\ \E i \in 1..Len(submits) :
          /\ submits[i].at = "awaitWalk"
          /\ LET h == Caught(submits[i], "walkRejected")
             IN  /\ submits' = [submits EXCEPT ![i] = h]
                 /\ location' = LocationAfter(h)
    /\ UNCHANGED <<dogWalk, dogPotty, auditVars, swVars>>

\* The promise of addPotty resolves and the handler navigates.
PottyResolves ==
    /\ \E i \in 1..Len(submits) :
          /\ submits[i].at = "awaitPotty"
          /\ LET h == Navigate(Did(submits[i], "start", "pottyResolved"))
             IN  /\ submits' = [submits EXCEPT ![i] = h]
                 /\ location' = LocationAfter(h)
    /\ UNCHANGED <<dogWalk, dogPotty, auditVars, swVars>>

\* The promise of addPotty rejects: the await throws into the catch.
PottyRejects ==
    /\ \E i \in 1..Len(submits) :
          /\ submits[i].at = "awaitPotty"
          /\ LET h == Caught(submits[i], "pottyRejected")
             IN  /\ submits' = [submits EXCEPT ![i] = h]
                 /\ location' = LocationAfter(h)
    /\ UNCHANGED <<dogWalk, dogPotty, auditVars, swVars>>

\* No audit runs on this page.
AuditUnused ==
    /\ versions = <<>>
    /\ registrations = <<>>
    /\ finalUrl = <<>>
    /\ WebAppManifest = Undefined
    /\ scopeArg = <<>>
    /\ pc = "idle"
    /\ ret = Undefined
    /\ fresh = <<>>

InitSingleDog == AuditUnused /\ SingleDogInit /\ HelperUnused

NextSingleDog ==
    \/ HandleWalkChange
    \/ HandlePottyChange
    \/ HandleFormSubmit
    \/ WalkResolves
    \/ WalkRejects
    \/ PottyResolves
    \/ PottyRejects

SpecSingleDog == InitSingleDog /\ [][NextSingleDog]_vars

\* The registration helper, called once.
InitHelper == AuditUnused /\ SingleDogInit /\ HelperInit

NextHelper ==
    \/ CheckValidServiceWorker
    \/ FetchFulfils
    \/ FetchRejects
    \/ ReadyFulfils
    \/ UnregisterFulfils
    \/ UnregisterRejects
    \/ RegisterFulfils
    \/ RegisterRejects
    \/ UpdateFound
    \/ StateChange

SpecHelper == InitHelper /\ [][NextHelper]_vars

\* ------------------------------------------------------ the state machine
\* A state holds the inputs of one call, which method was called (pc), what
\* it returned (ret) and the arrays the call allocated (fresh).
inputs == <<versions, registrations, finalUrl, WebAppManifest>>

\* The inputs of audit and checkStartUrl: the three artifacts.
Init ==
    /\ versions \in SeqsUpTo(ServiceWorkerVersions, MaxVersions)
    /\ registrations \in SeqsUpTo(ServiceWorkerRegistrations, MaxRegistrations)
    /\ finalUrl \in PageURLs
    /\ WebAppManifest \in Manifests
    /\ scopeArg = <<>>
    /\ pc = "idle"
    /\ ret = Undefined
    /\ fresh = <<>>
    /\ SingleDogInit
    /\ HelperUnused

\* The inputs of getVersionsForOrigin and getControllingServiceWorker, which
\* take no manifest.
InitResolver ==
    /\ versions \in SeqsUpTo(ServiceWorkerVersions, MaxVersions)
    /\ registrations \in SeqsUpTo(ServiceWorkerRegistrations, MaxRegistrations)
    /\ finalUrl \in PageURLs
    /\ WebAppManifest = Undefined
    /\ scopeArg = <<>>
    /\ pc = "idle"
    /\ ret = Undefined
    /\ fresh = <<>>
    /\ SingleDogInit
    /\ HelperUnused

CallGetVersionsForOrigin ==
    /\ pc = "idle"
    /\ pc' = "getVersionsForOrigin"
    /\ ret' = getVersionsForOrigin(versions, URLParse(finalUrl))
    /\ UNCHANGED <<inputs, scopeArg, fresh, dogVars, swVars>>

\* Called on any list of versions, filtered by origin or not.
CallGetControllingServiceWorker ==
    /\ pc = "idle"
    /\ pc' = "getControllingServiceWorker"
    /\ ret' = getControllingServiceWorker(versions, registrations,
                                          URLParse(finalUrl))
    /\ UNCHANGED <<inputs, scopeArg, fresh, dogVars, swVars>>

\* Called with the href of any scope as scopeUrl.
CallCheckStartUrl ==
    /\ pc = "idle"
    /\ \E s \in ScopeURLs :
          /\ scopeArg' = URLParse(s).href
          /\ ret' = checkStartUrl(WebAppManifest, URLParse(s).href)
    /\ pc' = "checkStartUrl"
    /\ UNCHANGED <<inputs, fresh, dogVars, swVars>>

CallAudit ==
    /\ pc = "idle"
    /\ pc' = "audit"
    /\ ret' = audit(Artifacts)
    /\ UNCHANGED <<inputs, scopeArg, fresh, dogVars, swVars>>

Next ==
    \/ CallCheckStartUrl
    \/ CallAudit

NextResolver ==
    \/ CallGetVersionsForOrigin
    \/ CallGetControllingServiceWorker

\* The audit and its start-URL validator.
Spec == Init /\ [][Next]_vars

\* The origin filter and the controlling-scope resolver.
SpecResolver == InitResolver /\ [][NextResolver]_vars

\* The same calls with the caller's two arrays held in memory at positions
\* 1 and 2: after the call the variables hold what the arrays then hold.
CallerMemory == <<versions, registrations>>

Allocated(mem) == SubSeq(mem, 3, Len(mem))

GetVersionsForOriginInMemory ==
    /\ pc = "idle"
    /\ LET r == getVersionsForOriginInMemory(CallerMemory, 1, URLParse(finalUrl))
       IN  /\ versions' = r.mem[1]
           /\ registrations' = r.mem[2]
           /\ fresh' = Allocated(r.mem)
           /\ ret' = r.mem[r.value]
    /\ pc' = "getVersionsForOrigin"
    /\ UNCHANGED <<finalUrl, WebAppManifest, scopeArg, dogVars, swVars>>

GetControllingServiceWorkerInMemory ==
    /\ pc = "idle"
    /\ LET r == getControllingServiceWorkerInMemory(CallerMemory, 1, 2,
                                                   URLParse(finalUrl))
       IN  /\ versions' = r.mem[1]
           /\ registrations' = r.mem[2]
           /\ fresh' = Allocated(r.mem)
           /\ ret' = r.value
    /\ pc' = "getControllingServiceWorker"
    /\ UNCHANGED <<finalUrl, WebAppManifest, scopeArg, dogVars, swVars>>

\* checkStartUrl reads its arguments and touches no array.
CheckStartUrlInMemory ==
    /\ pc = "idle"
    /\ \E s \in ScopeURLs :
          /\ scopeArg' = URLParse(s).href
          /\ ret' = checkStartUrl(WebAppManifest, URLParse(s).href)
    /\ pc' = "checkStartUrl"
    /\ UNCHANGED <<inputs, fresh, dogVars, swVars>>

AuditInMemory ==
    /\ pc = "idle"
    /\ LET r == auditInMemory(CallerMemory, 1, 2, finalUrl, WebAppManifest)
       IN  /\ versions' = r.mem[1]
           /\ registrations' = r.mem[2]
           /\ fresh' = Allocated(r.mem)
           /\ ret' = r.value
    /\ pc' = "audit"
    /\ UNCHANGED <<finalUrl, WebAppManifest, scopeArg, dogVars, swVars>>

NextInMemory ==
    \/ GetVersionsForOriginInMemory
    \/ GetControllingServiceWorkerInMemory
    \/ CheckStartUrlInMemory
    \/ AuditInMemory

\* The four methods with their effects on the arrays.
SpecInMemory == Init /\ [][NextInMemory]_vars

\* ------------------------------------------------- what the claims speak of
PageHref == URLParse(finalUrl).href

PageOrigin == URLParse(finalUrl).origin

IsPrefixOf(p, s) == Len(p) <= Len(s) /\ \A k \in 1..Len(p) : s[k] = p[k]

Called(f) == pc = f

\* The versions (by position) that are activated and of the page's origin.
KeptIndexes ==
    {i \in 1..Len(versions) :
        /\ versions[i].status = "activated"
        /\ URLParse(versions[i].scriptURL).origin = PageOrigin}

AllIndexes == 1..Len(versions)

RegistrationIndexes(i) ==
    {j \in 1..Len(registrations) :
        registrations[j].registrationId = versions[i].registrationId}

HasRegistration(i) == RegistrationIndexes(i) # {}

\* The first registration, in the caller's order, with the version's id.
FirstRegistration(i) ==
    registrations[CHOOSE j \in RegistrationIndexes(i) :
                     \A k \in RegistrationIndexes(i) : j <= k]

JoinedScope(i) == URLParse(FirstRegistration(i).scopeURL).href

JoinedScript(i) == URLParse(versions[i].scriptURL).href

JoinedPair(i) == [scopeUrl |-> JoinedScope(i), scriptUrl |-> JoinedScript(i)]

\* The candidates of S whose joined scope is a prefix of the page's href.
Controlling(S) ==
    {i \in S : HasRegistration(i) /\ IsPrefixOf(JoinedScope(i), PageHref)}

\* The last, in version order, of the longest-scoped candidates of S.
Winner(S) ==
    LET C == Controlling(S)
        length == [i \in C |-> Len(JoinedScope(i))]
    IN  CHOOSE i \in C :
            \A j \in C :
                \/ length[j] < length[i]
                \/ length[j] = length[i] /\ j <= i

\* C1: whenever getControllingServiceWorker returns a match, the returned
\* scopeUrl is a literal prefix of the normalized page URL href.
C1_ScopeIsPrefixOfPage ==
    (Called("getControllingServiceWorker") /\ ret # Undefined)
        => IsPrefixOf(ret.scopeUrl, PageHref)

\* A match is returned while another joined candidate is out of scope.
C1_Witness ==
    /\ Called("getControllingServiceWorker")
    /\ ret # Undefined
    /\ \E i \in AllIndexes :
          HasRegistration(i) /\ ~IsPrefixOf(JoinedScope(i), PageHref)

\* C2: the returned pair has a scope of maximal length among the candidates
\* whose scope is a prefix of the page href, and among those of maximal
\* length it is the last one in candidate-version order.
C2_LongestScopeLastOnTie ==
    (Called("getControllingServiceWorker") /\ ret # Undefined)
        => LET C == Controlling(AllIndexes)
           IN  /\ C # {}
               /\ \A i \in C : Len(JoinedScope(i)) <= Len(ret.scopeUrl)
               /\ ret = JoinedPair(Winner(AllIndexes))

\* Two candidates control the page, the longer scope coming first, and the
\* longer scope is returned.
C2_Witness ==
    /\ Called("getControllingServiceWorker")
    /\ \E i, j \in Controlling(AllIndexes) :
          /\ i < j
          /\ Len(JoinedScope(i)) > Len(JoinedScope(j))
          /\ ret = JoinedPair(i)

\* Two candidates with equal scopes and different scripts control the page,
\* and the later one is returned.
C2_TieWitness ==
    /\ Called("getControllingServiceWorker")
    /\ \E i, j \in Controlling(AllIndexes) :
          /\ i < j
          /\ JoinedScope(i) = JoinedScope(j)
          /\ JoinedScript(i) # JoinedScript(j)
          /\ ret = JoinedPair(j)

\* The n-th kept version, in input order.
NthKept(n) ==
    CHOOSE i \in KeptIndexes : Cardinality({j \in KeptIndexes : j < i}) = n - 1

\* C3: getVersionsForOrigin returns exactly the versions that are activated
\* and of the page's origin, in their input order.
C3_FilterByOriginExact ==
    Called("getVersionsForOrigin")
        => /\ Len(ret) = Cardinality(KeptIndexes)
           /\ Len(ret) <= Len(versions)
           /\ \A n \in 1..Len(ret) : ret[n] = versions[NthKept(n)]

\* The first version, activated but of another origin, is dropped and a
\* later one is kept.
C3_Witness ==
    /\ Called("getVersionsForOrigin")
    /\ Len(ret) = 1
    /\ \E i \in AllIndexes :
          /\ i \notin KeptIndexes
          /\ versions[i].status = "activated"
    /\ ret[1] # versions[1]

\* ------------------------------------------------------------ the verdict
OutcomeNames ==
    {"NoWorkerForOrigin", "PageOutOfScope", "ManifestMissing",
     "ManifestInvalid", "StartUrlOutOfScope", "Pass"}

HasExplanation(v, id) == v.explanation # Undefined /\ v.explanation.id = id

\* The outcome a verdict shows, by its score, details and explanation.
Shows(v, o) ==
    CASE o = "NoWorkerForOrigin" ->
            v.score = 0 /\ v.details = Undefined /\ v.explanation = Undefined
      [] o = "PageOutOfScope" ->
            /\ v.score = 0
            /\ v.details = Undefined
            /\ HasExplanation(v, "explanationOutOfScope")
      [] o = "ManifestMissing" ->
            /\ v.score = 0
            /\ v.details # Undefined
            /\ HasExplanation(v, "explanationNoManifest")
      [] o = "ManifestInvalid" ->
            /\ v.score = 0
            /\ v.details # Undefined
            /\ HasExplanation(v, "explanationBadManifest")
      [] o = "StartUrlOutOfScope" ->
            /\ v.score = 0
            /\ v.details # Undefined
            /\ HasExplanation(v, "explanationBadStartUrl")
      [] o = "Pass" ->
            v.score = 1 /\ v.details # Undefined /\ v.explanation = Undefined

ManifestParsed == WebAppManifest # Undefined /\ WebAppManifest.value # Undefined

StartUrl == WebAppManifest.value.start_url.value

\* The scope of the controlling worker among the kept versions.
ResolvedScope == JoinedScope(Winner(KeptIndexes))

\* The outcome the inputs call for (the taxonomy of failure outcomes).
ExpectedOutcome ==
    IF KeptIndexes = {} THEN "NoWorkerForOrigin"
    ELSE IF Controlling(KeptIndexes) = {} THEN "PageOutOfScope"
    ELSE IF WebAppManifest = Undefined THEN "ManifestMissing"
    ELSE IF WebAppManifest.value = Undefined THEN "ManifestInvalid"
    ELSE IF ~IsPrefixOf(ResolvedScope, StartUrl) THEN "StartUrlOutOfScope"
    ELSE "Pass"

\* C4: every combination of inputs to audit maps to exactly one of the six
\* outcomes, the one its inputs call for, and audit never ends in a thrown
\* error.
C4_AuditTotalSixOutcomes ==
    Called("audit")
        => /\ ret # TypeError
           /\ {o \in OutcomeNames : Shows(ret, o)} = {ExpectedOutcome}

\* A controlling worker is found and the manifest is present without a
\* parsed value: the audit reports ManifestInvalid.
C4_Witness ==
    /\ Called("audit")
    /\ WebAppManifest = [value |-> Undefined]
    /\ Controlling(KeptIndexes) # {}
    /\ ret # TypeError
    /\ Shows(ret, "ManifestInvalid")

\* C5: audit returns score 1 if and only if some version is activated and
\* same-origin, a controlling scope is resolved, the manifest has a parsed
\* value and its start_url begins with the resolved scope; otherwise 0.
C5_ScoreOneIffAllStagesPass ==
    Called("audit")
        => /\ ret.score \in {0, 1}
           /\ ret.score = 1 <=>
                 /\ KeptIndexes # {}
                 /\ Controlling(KeptIndexes) # {}
                 /\ ManifestParsed
                 /\ IsPrefixOf(ResolvedScope, StartUrl)

\* The audit passes with the longer of two controlling scopes.
C5_Witness ==
    /\ Called("audit")
    /\ ret.score = 1
    /\ \E i \in Controlling(KeptIndexes) :
          Len(JoinedScope(i)) < Len(ret.details.scopeUrl)

\* C6: the verdict carries details {type: 'debugdata', scriptUrl, scopeUrl}
\* exactly when the resolver identified a controlling worker, pass or fail,
\* they equal the resolver's result, and they are absent in the
\* NoWorkerForOrigin and PageOutOfScope outcomes.
C6_DetailsIffControllingWorker ==
    Called("audit")
        => LET C == Controlling(KeptIndexes)
               w == Winner(KeptIndexes)
           IN
           /\ ret.details # Undefined <=> C # {}
           /\ C # {} =>
                 ret.details =
                     [type |-> "debugdata",
                      scriptUrl |-> JoinedScript(w),
                      scopeUrl |-> JoinedScope(w)]
           /\ (Shows(ret, "NoWorkerForOrigin") \/ Shows(ret, "PageOutOfScope"))
                 => ret.details = Undefined

\* A start-URL failure that carries the details of the controlling worker.
C6_Witness ==
    /\ Called("audit")
    /\ ret.score = 0
    /\ ret.details # Undefined
    /\ ret.details.scopeUrl = ResolvedScope

\* C7: the explanation comes from the first failing stage: none when no
\* version is kept and when the audit passes; the out-of-scope message naming
\* the page href when versions are kept but none controls the page, whatever
\* the manifest; otherwise the failure message of checkStartUrl.
C7_ExplanationOfFirstFailingStage ==
    Called("audit")
        => LET K == KeptIndexes
               C == Controlling(KeptIndexes)
           IN
           /\ K = {} => ret.explanation = Undefined
           /\ ret.score = 1 => ret.explanation = Undefined
           /\ (K # {} /\ C = {})
                 => ret.explanation =
                       str_("explanationOutOfScope", [pageUrl |-> PageHref])
           /\ C # {}
                 => ret.explanation = checkStartUrl(WebAppManifest, ResolvedScope)

\* Versions are kept, none controls the page and no manifest was fetched:
\* the explanation is the out-of-scope one, not the manifest one.
C7_Witness ==
    /\ Called("audit")
    /\ KeptIndexes # {}
    /\ Controlling(KeptIndexes) = {}
    /\ WebAppManifest = Undefined
    /\ HasExplanation(ret, "explanationOutOfScope")

\* C8: checkStartUrl returns the no-manifest failure for an absent manifest,
\* the failed-to-parse failure for a manifest without a parsed value, the
\* not-in-scope failure carrying startUrl and scopeUrl when start_url does
\* not begin with scopeUrl, and absent exactly when the manifest is parsed
\* and start_url begins with scopeUrl.
C8_CheckStartUrlOrder ==
    Called("checkStartUrl")
        => /\ WebAppManifest = Undefined
                 => ret = str_("explanationNoManifest", NoValues)
           /\ (WebAppManifest # Undefined /\ WebAppManifest.value = Undefined)
                 => ret = str_("explanationBadManifest", NoValues)
           /\ (ManifestParsed /\ ~IsPrefixOf(scopeArg, StartUrl))
                 => ret = str_("explanationBadStartUrl",
                               [startUrl |-> StartUrl, scopeUrl |-> scopeArg])
           /\ ret = Undefined <=>
                 (ManifestParsed /\ IsPrefixOf(scopeArg, StartUrl))

\* A parsed manifest whose start_url is outside the scope.
C8_Witness ==
    /\ Called("checkStartUrl")
    /\ ManifestParsed
    /\ ret # Undefined
    /\ ret.id = "explanationBadStartUrl"

\* C9: getControllingServiceWorker returns absent if and only if no
\* candidate version has a matched (first with its id) registration whose
\* normalized scope is a prefix of the page href; versions without a
\* registration contribute no scope.
C9_AbsentIffNoControllingCandidate ==
    Called("getControllingServiceWorker")
        => /\ ret = Undefined <=> Controlling(AllIndexes) = {}
           /\ (\A i \in AllIndexes : ~HasRegistration(i)) => ret = Undefined

\* Versions are given, none has a registration, and a registration whose
\* scope contains the page exists under another id.
C9_Witness ==
    /\ Called("getControllingServiceWorker")
    /\ versions # <<>>
    /\ \A i \in AllIndexes : ~HasRegistration(i)
    /\ \E j \in 1..Len(registrations) :
          IsPrefixOf(URLParse(registrations[j].scopeURL).href, PageHref)
    /\ ret = Undefined

\* The registrations, after the first, that share the id of version i.
LaterDuplicates(i) ==
    {j \in RegistrationIndexes(i) : \E k \in RegistrationIndexes(i) : k < j}

\* C10: when registrations share a registrationId, a version with that id is
\* given the scope of the first of them: a returned pair is a version joined
\* with its first registration, and when no version's first registration
\* has a scope containing the page the result is absent, even when a later
\* duplicate's scope contains the page.
C10_FirstRegistrationWins ==
    Called("getControllingServiceWorker")
        => /\ ret # Undefined =>
                 \E i \in AllIndexes : HasRegistration(i) /\ ret = JoinedPair(i)
           /\ (\A i \in AllIndexes :
                   HasRegistration(i) => ~IsPrefixOf(JoinedScope(i), PageHref))
                 => ret = Undefined

\* Only a later duplicate's scope contains the page, and the result is
\* absent.
C10_Witness ==
    /\ Called("getControllingServiceWorker")
    /\ \E i \in AllIndexes :
          /\ HasRegistration(i)
          /\ ~IsPrefixOf(JoinedScope(i), PageHref)
          /\ \E j \in LaterDuplicates(i) :
                IsPrefixOf(URLParse(registrations[j].scopeURL).href, PageHref)
    /\ ret = Undefined

\* The versions (by position) that have a registration.
JoinedIndexes == {i \in AllIndexes : HasRegistration(i)}

\* C12: the scopeUrl and scriptUrl returned together come from one joined
\* pair: the script of a candidate version with the scope of the first
\* registration sharing that version's registrationId, never the script of
\* one version with the scope of another version's registration.
C12_PairFromOneVersion ==
    (Called("getControllingServiceWorker") /\ ret # Undefined)
        => ret \in {JoinedPair(i) : i \in JoinedIndexes}

\* Two versions with different scripts and different scopes, and the pair
\* of the first is returned: its scope with the other's script is no joined
\* pair.
C12_Witness ==
    /\ Called("getControllingServiceWorker")
    /\ \E i, j \in JoinedIndexes :
          /\ i < j
          /\ JoinedScript(i) # JoinedScript(j)
          /\ JoinedScope(i) # JoinedScope(j)
          /\ ret = JoinedPair(i)

\* C11: a call leaves its inputs as they were: after getVersionsForOrigin,
\* getControllingServiceWorker, checkStartUrl or audit returns, the caller's
\* versions list, registrations list, page URL and manifest are unchanged;
\* the sort and pop of the resolver act on an array the call allocated.
C11_InputsUnchanged ==
    [][/\ versions' = versions
       /\ registrations' = registrations
       /\ finalUrl' = finalUrl
       /\ WebAppManifest' = WebAppManifest]_vars

\* The resolver returned: the array it built holds two pairs, the longer
\* scope first, and of the array it filtered, sorted and popped only the
\* shorter scope is left.
C11_Witness ==
    /\ Called("getControllingServiceWorker")
    /\ Len(versions) = 2
    /\ Len(fresh) = 2
    /\ Len(fresh[1]) = 2
    /\ fresh[2] = <<fresh[1][2]>>
    /\ ret = fresh[1][1]
    /\ Len(fresh[1][1].scopeUrl) > Len(fresh[1][2].scopeUrl)

\* The position of an event among those of an invocation, 0 when absent.
When(h, event) ==
    IF \E k \in 1..Len(h.did) : h.did[k] = event
    THEN CHOOSE k \in 1..Len(h.did) : h.did[k] = event
    ELSE 0

Happened(h, event) == When(h, event) > 0

Before(h, a, b) == Happened(h, a) /\ When(h, a) < When(h, b)

\* C13: in handleFormSubmit the walk mutation, issued only when dogWalk is
\* set, has resolved before the potty mutation, issued only when dogPotty is
\* set, is started; the navigation to '/dashboard' follows the resolution of
\* every requested mutation; after a rejection no mutation is issued and no
\* navigation occurs.
C13_MutationsInSequenceThenNavigate ==
    /\ \A i \in 1..Len(submits) :
          LET h == submits[i]
          IN  /\ Happened(h, "addWalk") => h.walk
              /\ Happened(h, "addPotty") => h.potty
              /\ (Happened(h, "addPotty") /\ h.walk)
                    => Before(h, "walkResolved", "addPotty")
              /\ Happened(h, "navigate")
                    => /\ h.walk => Before(h, "walkResolved", "navigate")
                       /\ h.potty => Before(h, "pottyResolved", "navigate")
              /\ \A r \in {"walkRejected", "pottyRejected"} :
                    Happened(h, r)
                        => \A e \in {"addWalk", "addPotty", "navigate"} :
                              When(h, e) < When(h, r)
    /\ location = "/dashboard"
          => \E i \in 1..Len(submits) : Happened(submits[i], "navigate")

\* An invocation with both boxes checked has run to the navigation.
C13_Witness ==
    \E i \in 1..Len(submits) :
        /\ submits[i].walk
        /\ submits[i].potty
        /\ submits[i].did = <<"addWalk", "walkResolved", "addPotty",
                              "pottyResolved", "navigate">>
        /\ location = "/dashboard"

\* The walk mutation of an invocation with both boxes checked rejected.
C13_RejectionWitness ==
    \E i \in 1..Len(submits) :
        /\ submits[i].potty
        /\ submits[i].did = <<"addWalk", "walkRejected", "catch">>
        /\ location = "/single-dog"

\* What the helper has done, in the shape When and Happened read.
Helper == [did |-> swDid]

\* The response is a 404, or has a content type without 'javascript'.
NotAServiceWorker ==
    \/ response.status = 404
    \/ /\ response.contentType # Null
       /\ \A k \in 1..Len(response.contentType.tokens) :
             response.contentType.tokens[k] # "javascript"

\* C14: checkValidServiceWorker takes one of three paths per fetch result:
\* on a 404 or a content type that is set and lacks 'javascript' the ready
\* registration is unregistered, the page is reloaded only once the
\* unregister has completed and registerValidSW is never called; on any
\* other response registerValidSW is called and nothing is unregistered or
\* reloaded; when the fetch fails nothing is registered, unregistered or
\* reloaded.
C14_OnePathPerFetchResult ==
    /\ fetchPromise \in {"none", "pending"}
          => \A e \in {"registerValidSW", "unregister", "reload"} :
                ~Happened(Helper, e)
    /\ fetchPromise = "rejected"
          => \A e \in {"registerValidSW", "unregister", "reload"} :
                ~Happened(Helper, e)
    /\ (fetchPromise = "fulfilled" /\ NotAServiceWorker)
          => /\ ~Happened(Helper, "registerValidSW")
             /\ registerPromise = "none"
             /\ Happened(Helper, "reload")
                   => /\ Before(Helper, "unregister", "unregistered")
                      /\ Before(Helper, "unregistered", "reload")
                      /\ unregisterPromise = "fulfilled"
    /\ (fetchPromise = "fulfilled" /\ ~NotAServiceWorker)
          => /\ Happened(Helper, "registerValidSW")
             /\ ~Happened(Helper, "unregister")
             /\ ~Happened(Helper, "reload")
             /\ unregisterPromise = "none"

\* A 200 response of type text/html: unregistered, then reloaded.
C14_Witness ==
    /\ response # Undefined
    /\ response.status = 200
    /\ response.contentType = String(<<"text/", "html">>)
    /\ swDid = <<"fetch", "ready.then", "unregister", "unregistered", "reload">>

\* A 500 response without a content type: registerValidSW is called.
C14_RegisterWitness ==
    /\ response # Undefined
    /\ response.status = 500
    /\ response.contentType = Null
    /\ Happened(Helper, "registerValidSW")
    /\ Happened(Helper, "onSuccess")

====
